---------------------------- MODULE Spec2Model ----------------------------
(***************************************************************************)
(* Model of youtube_script_auto.py: the transcript acquirer                *)
(* (get_youtube_script / download_audio), the channel resolver             *)
(* (get_channel_videos / _get_videos_from_url and the two handlers of main *)
(* that call them), the file-name normaliser (make_filesafe_title) and the *)
(* sentence segmenter (split_into_sentences).                              *)
(*                                                                         *)
(* Strings are sequences of one-character strings, so that prefix tests,   *)
(* concatenation, slicing and per-character filters are computed.          *)
(***************************************************************************)
EXTENDS Integers, Sequences, FiniteSets, TLC

VARIABLES
    \* ---- transcript acquirer (get_youtube_script), one entry per call
    pc,          \* position of each call in get_youtube_script
    files,       \* paths that exist in the working directory
    audio_file,  \* the local 'audio_file' of each call (NoFile before line 102)
    text_result, \* the local 'text_result' of each call
    ret,         \* how each call ended: [kind, value]
    log,         \* the collaborator calls each call made, with their outcomes
    \* ---- channel resolver (main's handlers, get_channel_videos, _get_videos_from_url)
    rpc,         \* position of the running handler
    handler,     \* which handler of main runs
    ident,       \* the identifier the handler resolves (search_term / channel_url)
    max_results, \* the max_results argument
    channel_name,\* the argument of get_channel_videos (empty while not called)
    channel_url, \* the URL the search-derived strategy built
    guess,       \* index into possible_urls
    searches,    \* the queries passed to the platform search, in order
    fetches,     \* the listing fetches made, in order: [by, url, out]
    last_fetch,  \* the latest _get_videos_from_url call: [resp, max, result]
    gcv,         \* how get_channel_videos ended: [kind, value] (NotCalled before)
    videos,      \* main's 'videos' after the handler
    \* ---- make_filesafe_title
    title,       \* the input title
    tpc,         \* "ready" before the call, "done" after
    safe_title,  \* the returned file name
    \* ---- split_into_sentences
    in_text,     \* the input text
    spc,         \* "ready" before the call, "done" after
    sentences    \* the returned list of sentences

avars == <<pc, files, audio_file, text_result, ret, log>>
rvars == <<rpc, handler, ident, max_results, channel_name, channel_url, guess,
           searches, fetches, last_fetch, gcv, videos>>
tvars == <<title, tpc, safe_title>>
svars == <<in_text, spc, sentences>>
vars == <<avars, rvars, tvars, svars>>

None == "None"
NoFile == "NoFile"

(***************************************************************************)
(* Transcript acquirer                                                     *)
(***************************************************************************)
NumCalls == 2
Calls == 1..NumCalls

\* Outcomes of YouTubeTranscriptApi().fetch plus the list/join/clean_text that follow
CaptionOutcomes == {"ok", "TranscriptsDisabled", "NoTranscriptFound", "Exception"}
CallOutcomes == {"ok", "Exception"}

\* download_audio's default filename, which get_youtube_script never overrides
DownloadAudioFilename(p) == "audio.mp3"

\* Mutant: the fallback is entered on any failure of the caption stage
CaptionHandler_AnyFailure(o) == IF o = "ok" THEN "return" ELSE "download"

\* The try/except of lines 93-112 applied to the outcome of the caption stage
CaptionHandler(o) ==
    CASE o = "ok" -> "return"
      [] o \in {"TranscriptsDisabled", "NoTranscriptFound"} -> "download"
      [] OTHER -> "return_none"

\* Mutant: the fallback stage without its except clause
FallbackHandler_NoExcept(o, next) == IF o = "ok" THEN next ELSE "raise"

\* The inner try/except of lines 101-110 applied to a step of the fallback stage
FallbackHandler(o, next) == IF o = "ok" THEN next ELSE "return_none"

\* Leave the function from position 'to': a normal return, 'return None', or a raise
Leave(p, to) ==
    CASE to = "return_none" ->
            /\ pc' = [pc EXCEPT ![p] = "done"]
            /\ ret' = [ret EXCEPT ![p] = [kind |-> "returned", value |-> None]]
      [] to = "raise" ->
            /\ pc' = [pc EXCEPT ![p] = "done"]
            /\ ret' = [ret EXCEPT ![p] = [kind |-> "raised", value |-> None]]
      [] OTHER ->
            /\ pc' = [pc EXCEPT ![p] = to]
            /\ ret' = ret

Logged(p, op, o) == log' = [log EXCEPT ![p] = Append(@, [op |-> op, out |-> o])]

InitAcquirer ==
    /\ pc = [p \in Calls |-> "start"]
    /\ files = {}
    /\ audio_file = [p \in Calls |-> NoFile]
    /\ text_result = [p \in Calls |-> None]
    /\ ret = [p \in Calls |-> [kind |-> "running", value |-> None]]
    /\ log = [p \in Calls |-> <<>>]
    \* the other components are at rest
    /\ rpc = "idle"
    /\ handler = "none"
    /\ ident = <<>>
    /\ max_results = 1
    /\ channel_name = <<>>
    /\ channel_url = <<>>
    /\ guess = 0
    /\ searches = <<>>
    /\ fetches = <<>>
    /\ last_fetch = [resp |-> [kind |-> "none", entries |-> <<>>], max |-> 0, result |-> [t |-> "None", v |-> <<>>]]
    /\ gcv = [kind |-> "not_called", value |-> [t |-> "None", v |-> <<>>]]
    /\ videos = [t |-> "None", v |-> <<>>]
    /\ title = <<>>
    /\ tpc = "ready"
    /\ safe_title = <<>>
    /\ in_text = <<>>
    /\ spc = "ready"
    /\ sentences = <<>>

\* lines 88-91: video_id, text_result = None, safe_title
Invoke(p) ==
    /\ pc[p] = "start"
    /\ pc' = [pc EXCEPT ![p] = "caption"]
    /\ text_result' = [text_result EXCEPT ![p] = None]
    /\ UNCHANGED <<files, audio_file, ret, log>>
    /\ UNCHANGED <<rvars, tvars, svars>>

\* lines 93-100, 111-112: the caption stage and the dispatch on its failure
FetchCaptions(p) ==
    /\ pc[p] = "caption"
    /\ \E o \in CaptionOutcomes :
        /\ Logged(p, "caption", o)
        /\ text_result' = [text_result EXCEPT ![p] = IF o = "ok" THEN "captions" ELSE @]
        /\ Leave(p, CaptionHandler(o))
    /\ UNCHANGED <<files, audio_file>>
    /\ UNCHANGED <<rvars, tvars, svars>>

\* line 102 (download_audio, lines 76-84)
DownloadAudio(p) ==
    /\ pc[p] = "download"
    /\ \E o \in CallOutcomes :
        /\ Logged(p, "download", o)
        /\ IF o = "ok"
            THEN /\ files' = files \cup {DownloadAudioFilename(p)}
                 /\ audio_file' = [audio_file EXCEPT ![p] = DownloadAudioFilename(p)]
            ELSE UNCHANGED <<files, audio_file>>
        /\ Leave(p, FallbackHandler(o, "load_model"))
    /\ UNCHANGED text_result
    /\ UNCHANGED <<rvars, tvars, svars>>

\* line 103
LoadModel(p) ==
    /\ pc[p] = "load_model"
    /\ \E o \in CallOutcomes :
        /\ Logged(p, "load_model", o)
        /\ Leave(p, FallbackHandler(o, "transcribe"))
    /\ UNCHANGED <<files, audio_file, text_result>>
    /\ UNCHANGED <<rvars, tvars, svars>>

\* lines 104-105: transcription reads the file, so it succeeds only if the file is there
Transcribe(p) ==
    /\ pc[p] = "transcribe"
    /\ \E o \in CallOutcomes :
        /\ o = "ok" => audio_file[p] \in files
        /\ Logged(p, "transcribe", o)
        /\ text_result' = [text_result EXCEPT ![p] = IF o = "ok" THEN "whisper" ELSE @]
        /\ Leave(p, FallbackHandler(o, "exists"))
    /\ UNCHANGED <<files, audio_file>>
    /\ UNCHANGED <<rvars, tvars, svars>>

\* line 107
PathExists(p) ==
    /\ pc[p] = "exists"
    /\ Leave(p, IF audio_file[p] \in files THEN "remove" ELSE "return")
    /\ UNCHANGED <<files, audio_file, text_result, log>>
    /\ UNCHANGED <<rvars, tvars, svars>>

\* line 108: os.remove raises FileNotFoundError when the file is gone
Remove(p) ==
    /\ pc[p] = "remove"
    /\ LET o == IF audio_file[p] \in files THEN "ok" ELSE "Exception" IN
        /\ Logged(p, "remove", o)
        /\ files' = files \ {audio_file[p]}
        /\ Leave(p, FallbackHandler(o, "return"))
    /\ UNCHANGED <<audio_file, text_result>>
    /\ UNCHANGED <<rvars, tvars, svars>>

\* line 116
Return(p) ==
    /\ pc[p] = "return"
    /\ pc' = [pc EXCEPT ![p] = "done"]
    /\ ret' = [ret EXCEPT ![p] = [kind |-> "returned", value |-> text_result[p]]]
    /\ UNCHANGED <<files, audio_file, text_result, log>>
    /\ UNCHANGED <<rvars, tvars, svars>>

get_youtube_script(p) ==
    \/ Invoke(p)
    \/ FetchCaptions(p)
    \/ DownloadAudio(p)
    \/ LoadModel(p)
    \/ Transcribe(p)
    \/ PathExists(p)
    \/ Remove(p)
    \/ Return(p)

(***************************************************************************)
(* Channel resolver                                                        *)
(*                                                                         *)
(* A Python string is a sequence of characters; a value that may be a      *)
(* string, None or missing is the empty sequence when it is falsy (the     *)
(* code only tests such values for truth).  A value that may be a list or  *)
(* None is tagged, because the code returns both.                          *)
(***************************************************************************)
MaxEntries == 3
MaxResultsArg == 2

PyNone == [t |-> "None", v |-> <<>>]
PyList(s) == [t |-> "list", v |-> s]
Truthy(x) == x.t = "list" /\ x.v # <<>>

StartsWith(s, prefix) ==
    /\ Len(s) >= Len(prefix)
    /\ SubSeq(s, 1, Len(prefix)) = prefix

S_http == <<"h","t","t","p">>
S_at == <<"@">>
S_UC == <<"U","C">>
S_youtube == <<"h","t","t","p","s",":","/","/","w","w","w",".","y","o","u","t","u","b","e",".","c","o","m","/">>
S_videos == <<"/","v","i","d","e","o","s">>
S_watch == <<"w","a","t","c","h","?","v","=">>
S_ytsearch1 == <<"y","t","s","e","a","r","c","h","1",":">>

\* The two quick-select buttons of main (lines 432-441)
QuickChannels ==
    { [channel_url |-> S_youtube \o <<"@","E","n","g","l","i","s","h","P","o","d","c","a","s","t","Z","o","n","e">> \o S_videos,
       fallback_name |-> <<"E","n","g","l","i","s","h"," ","P","o","d","c","a","s","t"," ","Z","o","n","e">>],
      [channel_url |-> S_youtube \o <<"@","L","e","a","r","n","E","n","g","l","i","s","h","w","i","t","h","B","o","b","t","h","e","C","a","n","a","d","i","a","n">> \o S_videos,
       fallback_name |-> <<"L","e","a","r","n"," ","E","n","g","l","i","s","h"," ","w","i","t","h"," ","B","o","b"," ","t","h","e"," ","C","a","n","a","d","i","a","n">>] }

\* What the user may type in the channel box; main ignores an empty box (line 444)
UserInputs ==
    { <<"h","t","t","p","s",":","/","/","w","w","w",".","y","o","u","t","u","b","e",".","c","o","m","/","@","a","/","v","i","d","e","o","s">>,
      S_http,
      <<"h","t","t">>,
      <<"H","T","T","P",":","/","/","a">>,
      <<"@","a">>,
      <<"a"," ","h","t","t","p">> }

\* Entries of a provider listing: 'id' and 'url' may be missing
V1 == <<"v","1">>
V2 == <<"v","2">>
U1 == <<"u","1">>
EntryChoices ==
    { [id |-> <<>>, url |-> <<>>], [id |-> V1, url |-> U1], [id |-> V2, url |-> <<>>] }

SeqsUpTo(S, n) == UNION { [1..k -> S] : k \in 0..n }

\* What ydl.extract_info(channel_url) may do: raise, return None, return a dict
\* without 'entries', return a dict with 'entries'
ListingResponses ==
    { [kind |-> k, entries |-> <<>>] : k \in {"raise", "none", "no_entries_key"} }
    \cup { [kind |-> "entries", entries |-> e] : e \in SeqsUpTo(EntryChoices, MaxEntries) }

\* What ydl.extract_info("ytsearch1:...") may do; the first result carries
\* 'channel_id' and 'channel', either of which may be missing
SearchResponses ==
    { [kind |-> k, channel_id |-> <<>>, channel |-> <<>>] :
        k \in {"ydl_error", "raise", "none", "empty"} }
    \cup { [kind |-> "entries", channel_id |-> c, channel |-> n] :
             c \in {<<>>, <<"@","a">>, <<"U","C","x">>, <<"x">>},
             n \in {<<>>, <<"n">>} }

Min(a, b) == IF a < b THEN a ELSE b

\* lines 226-239: the dict built for entry number i (1-based, before filtering)
VideoOf(i, entry) ==
    [index |-> i,
     id |-> entry.id,
     url |-> IF entry.url # <<>> THEN entry.url ELSE S_youtube \o S_watch \o entry.id]

\* Mutant: entries are numbered after the ones without id were dropped
VideosOf_RankAfterFilter(entries, m) ==
    LET first == SubSeq(entries, 1, Min(m, Len(entries)))
        kept == SelectSeq(first, LAMBDA e : e.id # <<>>)
    IN [i \in 1..Len(kept) |-> VideoOf(i, kept[i])]

\* lines 223-241: enumerate the first max_results entries from 1, skip those without id
VideosOf(entries, m) ==
    LET first == SubSeq(entries, 1, Min(m, Len(entries)))
        all == [i \in 1..Len(first) |-> VideoOf(i, first[i])]
    IN SelectSeq(all, LAMBDA v : v.id # <<>>)

\* Mutant: line 241 returns the list it built, also when it is empty
GetVideosFromUrl_KeepsEmptyList(resp, m) ==
    CASE resp.kind = "raise" -> [t |-> "raise", v |-> <<>>]
      [] resp.kind = "entries" /\ resp.entries # <<>> -> PyList(VideosOf(resp.entries, m))
      [] OTHER -> PyNone

\* lines 219-243: _get_videos_from_url on a provider response
GetVideosFromUrl(resp, m) ==
    CASE resp.kind = "raise" -> [t |-> "raise", v |-> <<>>]
      [] resp.kind = "entries" ->
            LET vs == VideosOf(resp.entries, m)
            IN IF vs # <<>> THEN PyList(vs) ELSE PyNone
      [] OTHER -> PyNone

\* line 161
SearchQuery(name) == S_ytsearch1 \o name

\* lines 164-182: the channel URL derived from a search response (<<>>: none built)
DerivedUrl(resp) ==
    IF resp.kind # "entries" THEN <<>>
    ELSE
        LET channel_id == IF resp.channel_id # <<>> THEN resp.channel_id ELSE resp.channel
            channel_name_found == resp.channel
        IN IF channel_id # <<>> \/ channel_name_found # <<>>
           THEN IF channel_id # <<>>
                THEN IF StartsWith(channel_id, S_at) \/ StartsWith(channel_id, S_UC)
                     THEN IF StartsWith(channel_id, S_at)
                          THEN S_youtube \o channel_id \o S_videos
                          ELSE S_youtube \o <<"c","h","a","n","n","e","l","/">> \o channel_id \o S_videos
                     ELSE S_youtube \o <<"c","h","a","n","n","e","l","/">> \o channel_id \o S_videos
                ELSE IF channel_name_found # <<>>
                     THEN S_youtube \o <<"c","/">> \o channel_name_found \o S_videos
                     ELSE <<>>
           ELSE <<>>

\* lines 190-195
PossibleUrls(name) ==
    << S_youtube \o <<"@">> \o name \o S_videos,
       S_youtube \o <<"c","/">> \o name \o S_videos,
       S_youtube \o <<"u","s","e","r","/">> \o name \o S_videos,
       S_youtube \o <<"c","h","a","n","n","e","l","/">> \o name \o S_videos >>

\* Mutant: main hands every search term to get_channel_videos
IsDirectUrl_Never(search_term) == FALSE

\* line 452: main's test for a raw URL
IsDirectUrl(search_term) == StartsWith(search_term, S_http)

\* line 185: what get_channel_videos does with the search-derived listing
\* ("return": return it whatever it is; "guess": go on to the direct guesses)
AfterDerived(r) == IF r.t = "raise" THEN "guess" ELSE "return"

\* lines 199-203: what the loop does with the listing of one guess
AfterGuess(r) ==
    IF r.t = "raise" THEN "continue" ELSE IF Truthy(r) THEN "return" ELSE "continue"

NotCalled == [kind |-> "not_called", value |-> PyNone]
NoFetch == [resp |-> [kind |-> "none", entries |-> <<>>], max |-> 0, result |-> PyNone]

InitResolver ==
    /\ rpc = "idle"
    /\ handler = "none"
    /\ ident = <<>>
    /\ max_results \in 1..MaxResultsArg
    /\ channel_name = <<>>
    /\ channel_url = <<>>
    /\ guess = 0
    /\ searches = <<>>
    /\ fetches = <<>>
    /\ last_fetch = NoFetch
    /\ gcv = NotCalled
    /\ videos = PyNone
    \* the other components are at rest
    /\ pc = [p \in Calls |-> "start"]
    /\ files = {}
    /\ audio_file = [p \in Calls |-> NoFile]
    /\ text_result = [p \in Calls |-> None]
    /\ ret = [p \in Calls |-> [kind |-> "running", value |-> None]]
    /\ log = [p \in Calls |-> <<>>]
    /\ title = <<>>
    /\ tpc = "ready"
    /\ safe_title = <<>>
    /\ in_text = <<>>
    /\ spc = "ready"
    /\ sentences = <<>>

\* One call of _get_videos_from_url(url, max_results) answered by 'resp'
Fetched(by, url, resp) ==
    LET r == GetVideosFromUrl(resp, max_results) IN
    /\ fetches' = Append(fetches, [by |-> by, url |-> url, out |-> r.t])
    /\ last_fetch' = [resp |-> resp, max |-> max_results, result |-> r]

\* lines 457-468 and 419-427: 'if videos:' keeps the list, otherwise None
HandlerEnds(v) ==
    /\ rpc' = "done"
    /\ videos' = IF Truthy(v) THEN v ELSE PyNone

\* get_channel_videos returns v to the handler
GcvReturns(v) ==
    /\ gcv' = [kind |-> "returned", value |-> v]
    /\ HandlerEnds(v)

\* lines 444-455: the search button with a non-empty box
ClickSearch ==
    /\ rpc = "idle"
    /\ \E s \in UserInputs :
        /\ handler' = "search_button"
        /\ ident' = s
        /\ IF IsDirectUrl(s)
            THEN rpc' = "direct" /\ channel_name' = channel_name
            ELSE rpc' = "gcv_search" /\ channel_name' = s
    /\ UNCHANGED <<max_results, channel_url, guess, searches, fetches, last_fetch,
                   gcv, videos>>
    /\ UNCHANGED <<avars, tvars, svars>>

\* lines 432-441, 413-416: a quick-select button
ClickQuick ==
    /\ rpc = "idle"
    /\ \E q \in QuickChannels :
        /\ handler' = "quick_search"
        /\ ident' = q.channel_url
        /\ rpc' = "direct"
    /\ UNCHANGED <<max_results, channel_name, channel_url, guess, searches, fetches,
                   last_fetch, gcv, videos>>
    /\ UNCHANGED <<avars, tvars, svars>>

\* lines 453 and 416-418: the handler's own _get_videos_from_url(ident); a raise is
\* caught by the handler's except (lines 428-430, 470-475)
DirectFetch ==
    /\ rpc = "direct"
    /\ \E resp \in ListingResponses :
        LET r == GetVideosFromUrl(resp, max_results) IN
        /\ Fetched("main", ident, resp)
        /\ IF handler = "quick_search" /\ r.t # "raise" /\ ~Truthy(r)
            THEN /\ rpc' = "gcv_search"
                 /\ channel_name' =
                      (CHOOSE q \in QuickChannels : q.channel_url = ident).fallback_name
                 /\ videos' = videos
            ELSE /\ HandlerEnds(r)
                 /\ channel_name' = channel_name
    /\ UNCHANGED <<handler, ident, max_results, channel_url, guess, searches, gcv>>
    /\ UNCHANGED <<avars, tvars, svars>>

\* lines 157-187: open YoutubeDL, search, derive the channel URL
GcvSearch ==
    /\ rpc = "gcv_search"
    /\ \E resp \in SearchResponses :
        IF resp.kind = "ydl_error"
        THEN \* lines 207-209: YoutubeDL(...) itself failed
             /\ GcvReturns(PyList(<<>>))
             /\ UNCHANGED <<searches, channel_url, guess>>
        ELSE /\ searches' = Append(searches, SearchQuery(channel_name))
             /\ channel_url' = DerivedUrl(resp)
             /\ IF DerivedUrl(resp) # <<>>
                 THEN rpc' = "gcv_derived" /\ guess' = guess
                 ELSE rpc' = "gcv_guess" /\ guess' = 1
             /\ UNCHANGED <<gcv, videos>>
    /\ UNCHANGED <<handler, ident, max_results, channel_name, fetches, last_fetch>>
    /\ UNCHANGED <<avars, tvars, svars>>

\* line 185 (and 186-187 when the fetch raises)
GcvDerived ==
    /\ rpc = "gcv_derived"
    /\ \E resp \in ListingResponses :
        LET r == GetVideosFromUrl(resp, max_results) IN
        /\ Fetched("search", channel_url, resp)
        /\ IF AfterDerived(r) = "return"
            THEN GcvReturns(r) /\ guess' = guess
            ELSE rpc' = "gcv_guess" /\ guess' = 1 /\ UNCHANGED <<gcv, videos>>
    /\ UNCHANGED <<handler, ident, max_results, channel_name, channel_url, searches>>
    /\ UNCHANGED <<avars, tvars, svars>>

\* lines 197-205: one round of the loop over possible_urls, and the final return []
GcvGuess ==
    /\ rpc = "gcv_guess"
    /\ \E resp \in ListingResponses :
        LET r == GetVideosFromUrl(resp, max_results) IN
        /\ Fetched("guess", PossibleUrls(channel_name)[guess], resp)
        /\ IF AfterGuess(r) = "return"
            THEN GcvReturns(r) /\ guess' = guess
            ELSE IF guess < Len(PossibleUrls(channel_name))
                 THEN rpc' = "gcv_guess" /\ guess' = guess + 1 /\ UNCHANGED <<gcv, videos>>
                 ELSE GcvReturns(PyList(<<>>)) /\ guess' = guess
    /\ UNCHANGED <<handler, ident, max_results, channel_name, channel_url, searches>>
    /\ UNCHANGED <<avars, tvars, svars>>

(***************************************************************************)
(* File-name normaliser                                                    *)
(*                                                                         *)
(* A character is a string: a printable ASCII character stands for itself, *)
(* any other is named by its code point ("U+0009").  The alphabet holds    *)
(* one character or more of every class the code tells apart.              *)
(***************************************************************************)
MaxTitleLen == 3
MaxTailLen == 2
MaxNameLen == 150

S_script == <<"s","c","r","i","p","t">>

\* line 64: the character class [<>:\\/\\|?*\"]
ForbiddenChars == {"<", ">", ":", "\\", "/", "|", "?", "*", "\""}

TitleChars ==
    {"a", ".", "_", " ", "U+0009", "U+0001", "U+001F", "U+007F",
     "U+FF1C", "U+0301", "U+00E1", "U+00A0", "U+2026"} \cup ForbiddenChars

\* ord(ch)
CodePoint(ch) ==
    CASE ch = "U+0001" -> 1   [] ch = "U+0009" -> 9   [] ch = "U+001F" -> 31
      [] ch = " " -> 32       [] ch = "\"" -> 34      [] ch = "*" -> 42
      [] ch = "." -> 46       [] ch = "/" -> 47       [] ch = ":" -> 58
      [] ch = "<" -> 60       [] ch = ">" -> 62       [] ch = "?" -> 63
      [] ch = "\\" -> 92      [] ch = "_" -> 95       [] ch = "a" -> 97
      [] ch = "c" -> 99       [] ch = "i" -> 105      [] ch = "p" -> 112
      [] ch = "r" -> 114      [] ch = "s" -> 115      [] ch = "t" -> 116
      [] ch = "|" -> 124      [] ch = "U+007F" -> 127 [] ch = "U+00A0" -> 160
      [] ch = "U+00E1" -> 225 [] ch = "U+0301" -> 769 [] ch = "U+2026" -> 8230
      [] ch = "U+FF1C" -> 65308

\* what Python's \s and str.strip() take for whitespace
SpaceChars == {" ", "U+0009", "U+001F", "U+00A0"}
IsSpace(ch) == ch \in SpaceChars

\* unicodedata.category(ch) = 'Mn'
IsMn(ch) == ch = "U+0301"

\* unicodedata.normalize('NFKD', ch) of one character
NFKD(ch) ==
    CASE ch = "U+00E1" -> <<"a", "U+0301">>
      [] ch = "U+00A0" -> <<" ">>
      [] ch = "U+FF1C" -> <<"<">>
      [] ch = "U+2026" -> <<".", ".", ".">>
      [] OTHER -> <<ch>>

\* unicodedata.normalize('NFKD', text): the decompositions of its characters, in order
\* (slot k of 'wide' holds character j of the decomposition of text[i], or nothing)
DecompWidth == CHOOSE w \in 1..4 : \A ch \in TitleChars : Len(NFKD(ch)) <= w
Decompose(text) ==
    LET wide == [k \in 1..(DecompWidth * Len(text)) |->
                   LET i == ((k - 1) \div DecompWidth) + 1
                       j == ((k - 1) % DecompWidth) + 1
                       d == NFKD(text[i])
                   IN IF j <= Len(d) THEN d[j] ELSE ""]
    IN SelectSeq(wide, LAMBDA ch : ch # "")

\* re.sub(r"\s+", rep, text): every maximal run of whitespace becomes rep
SubSpaceRuns(text, rep) ==
    LET marked == [i \in 1..Len(text) |->
                     IF IsSpace(text[i])
                     THEN IF i > 1 /\ IsSpace(text[i - 1]) THEN "" ELSE rep
                     ELSE text[i]]
    IN SelectSeq(marked, LAMBDA ch : ch # "")

\* text.rstrip(chars): k is the number of trailing characters that are stripped
RStrip(text, chars) ==
    LET n == Len(text) IN
    IF \A i \in 1..n : text[i] \in chars THEN <<>>
    ELSE LET k == CHOOSE k \in 0..(n - 1) :
                    /\ text[n - k] \notin chars
                    /\ \A m \in 0..(k - 1) : text[n - m] \in chars
         IN SubSeq(text, 1, n - k)

\* text.lstrip(chars): k is the number of leading characters that are stripped
LStrip(text, chars) ==
    LET n == Len(text) IN
    IF \A i \in 1..n : text[i] \in chars THEN <<>>
    ELSE LET k == CHOOSE k \in 0..(n - 1) :
                    /\ text[k + 1] \notin chars
                    /\ \A m \in 1..k : text[m] \in chars
         IN SubSeq(text, k + 1, n)

\* text.strip(): whitespace off both ends
Strip(text) == RStrip(LStrip(text, SpaceChars), SpaceChars)

\* lines 48-57
normalize_visible_text(text) ==
    IF text = <<>> THEN <<>>
    ELSE LET decomposed == Decompose(text)
             without_marks == SelectSeq(decomposed, LAMBDA ch : ~IsMn(ch))
         IN Strip(SubSpaceRuns(without_marks, " "))

\* Mutant: the character class without the backslash
ReplaceForbidden_NoBackslash(base) ==
    [i \in 1..Len(base) |->
        IF base[i] \in ForbiddenChars \ {"\\"} THEN " " ELSE base[i]]

\* line 64
ReplaceForbidden(base) ==
    [i \in 1..Len(base) |-> IF base[i] \in ForbiddenChars THEN " " ELSE base[i]]

\* line 66
DropControl(base) == SelectSeq(base, LAMBDA ch : CodePoint(ch) >= CodePoint(" "))

\* line 68
Underscored(base) == RStrip(Strip(SubSpaceRuns(base, "_")), {"_"})

\* lines 70-71
Truncated(base) ==
    IF Len(base) > MaxNameLen
    THEN RStrip(SubSeq(base, 1, MaxNameLen), {"_"})
    ELSE base

\* line 62 and 73: x or "script"
OrScript(base) == IF base # <<>> THEN base ELSE S_script

\* lines 60-73
make_filesafe_title(t) ==
    OrScript(Truncated(Underscored(DropControl(ReplaceForbidden(
        OrScript(normalize_visible_text(t)))))))

Pad(ch, n) == [i \in 1..n |-> ch]

\* Every title of up to MaxTitleLen characters, and titles around the length limit:
\* a run of one character, of a length near MaxNameLen, between a short head and tail
ShortTitles == SeqsUpTo(TitleChars, MaxTitleLen)
LongTitles ==
    { h \o Pad(ch, n) \o tl :
        h \in {<<>>, <<"_">>},
        ch \in {"a", "_", ".", "U+2026"},
        n \in (MaxNameLen - 2)..(MaxNameLen + 1),
        tl \in SeqsUpTo({"a", "_", ".", " ", "<"}, MaxTailLen) }
Titles == ShortTitles \cup LongTitles

InitTitle ==
    /\ title \in Titles
    /\ tpc = "ready"
    /\ safe_title = <<>>
    \* the other components are at rest
    /\ pc = [p \in Calls |-> "start"]
    /\ files = {}
    /\ audio_file = [p \in Calls |-> NoFile]
    /\ text_result = [p \in Calls |-> None]
    /\ ret = [p \in Calls |-> [kind |-> "running", value |-> None]]
    /\ log = [p \in Calls |-> <<>>]
    /\ rpc = "idle"
    /\ handler = "none"
    /\ ident = <<>>
    /\ max_results = 1
    /\ channel_name = <<>>
    /\ channel_url = <<>>
    /\ guess = 0
    /\ searches = <<>>
    /\ fetches = <<>>
    /\ last_fetch = NoFetch
    /\ gcv = NotCalled
    /\ videos = PyNone
    /\ in_text = <<>>
    /\ spc = "ready"
    /\ sentences = <<>>

\* one call of make_filesafe_title(title)
MakeFilesafeTitle ==
    /\ tpc = "ready"
    /\ tpc' = "done"
    /\ safe_title' = make_filesafe_title(title)
    /\ title' = title
    /\ UNCHANGED <<avars, rvars, svars>>

(***************************************************************************)
(* Sentence segmenter                                                      *)
(***************************************************************************)
MaxTextLen == 5

\* the characters of a text: a letter, two terminators, a space, a tab, a newline
TextChars == {"a", ".", "?", " ", "U+0009", "U+000A"}

\* the class [.!?] of lines 270 and 277
Terminators == {".", "!", "?"}

\* what \s and str.strip() take for whitespace, the newline included
TextSpaceChars == SpaceChars \cup {"U+000A"}

\* str.strip() of a text
StripText(t) == RStrip(LStrip(t, TextSpaceChars), TextSpaceChars)

\* line 263: text.split('\n')
RECURSIVE SplitLines(_)
SplitLines(t) ==
    IF \A i \in DOMAIN t : t[i] # "U+000A" THEN <<t>>
    ELSE LET i == CHOOSE i \in DOMAIN t :
                    t[i] = "U+000A" /\ \A j \in 1..(i - 1) : t[j] # "U+000A"
         IN <<SubSeq(t, 1, i - 1)>> \o SplitLines(SubSeq(t, i + 1, Len(t)))

\* [.!?]+\s+ matched at position i of para: the greedy run of terminators from i
\* must be followed by whitespace; the result is the last position of the match
\* (0: no match at i)
MatchEnd(para, i) ==
    IF para[i] \notin Terminators THEN 0
    ELSE LET n == Len(para)
             j == CHOOSE j \in i..n :
                    /\ \A k \in i..j : para[k] \in Terminators
                    /\ j = n \/ para[j + 1] \notin Terminators
         IN IF j = n \/ para[j + 1] \notin TextSpaceChars THEN 0
            ELSE CHOOSE e \in (j + 1)..n :
                    /\ \A k \in (j + 1)..e : para[k] \in TextSpaceChars
                    /\ e = n \/ para[e + 1] \notin TextSpaceChars

\* line 270: re.split(r'([.!?]+\s+)', para): the text before the leftmost match, the
\* match itself (the pattern is one capturing group), then the split of the rest
RECURSIVE ReSplit(_)
ReSplit(para) ==
    LET starts == {i \in DOMAIN para : MatchEnd(para, i) # 0} IN
    IF starts = {} THEN <<para>>
    ELSE LET i == CHOOSE i \in starts : \A j \in starts : i <= j
             e == MatchEnd(para, i)
         IN <<SubSeq(para, 1, i - 1), SubSeq(para, i, e)>>
            \o ReSplit(SubSeq(para, e + 1, Len(para)))

\* line 277: re.search(r'[.!?]+\s*$', current): current ends with a terminator
\* followed by nothing but whitespace
EndsSentence(current) ==
    \E i \in DOMAIN current :
        /\ current[i] \in Terminators
        /\ \A k \in (i + 1)..Len(current) : current[k] \in TextSpaceChars

\* lines 272-280: the loop over the parts of one paragraph; the result is the
\* sentences flushed and what is left in 'current'
RECURSIVE Accumulate(_, _, _)
Accumulate(parts, current, out) ==
    IF parts = <<>> THEN [out |-> out, current |-> current]
    ELSE LET part == Head(parts) IN
         IF part = <<>> THEN Accumulate(Tail(parts), current, out)
         ELSE LET cur == current \o part IN
              IF EndsSentence(cur)
              THEN IF StripText(cur) # <<>>
                   THEN Accumulate(Tail(parts), <<>>, Append(out, StripText(cur)))
                   ELSE Accumulate(Tail(parts), cur, out)
              ELSE Accumulate(Tail(parts), cur, out)

\* Mutant: what is left in 'current' at the end of a paragraph is not appended
Leftover_Dropped(current) == <<>>

\* lines 282-283: what is left in 'current' at the end of a paragraph
Leftover(current) ==
    IF StripText(current) # <<>> THEN <<StripText(current)>> ELSE <<>>

\* lines 267-283: the sentences of one paragraph
SentencesOf(para) ==
    IF StripText(para) = <<>> THEN <<>>
    ELSE LET acc == Accumulate(ReSplit(para), <<>>, <<>>)
         IN acc.out \o Leftover(acc.current)

RECURSIVE SentencesOfAll(_)
SentencesOfAll(paragraphs) ==
    IF paragraphs = <<>> THEN <<>>
    ELSE SentencesOf(Head(paragraphs)) \o SentencesOfAll(Tail(paragraphs))

\* lines 261-285
split_into_sentences(t) ==
    LET result == SentencesOfAll(SplitLines(t))
    IN IF result # <<>> THEN result ELSE <<t>>

Texts == SeqsUpTo(TextChars, MaxTextLen)

InitSegmenter ==
    /\ in_text \in Texts
    /\ spc = "ready"
    /\ sentences = <<>>
    \* the other components are at rest
    /\ pc = [p \in Calls |-> "start"]
    /\ files = {}
    /\ audio_file = [p \in Calls |-> NoFile]
    /\ text_result = [p \in Calls |-> None]
    /\ ret = [p \in Calls |-> [kind |-> "running", value |-> None]]
    /\ log = [p \in Calls |-> <<>>]
    /\ rpc = "idle"
    /\ handler = "none"
    /\ ident = <<>>
    /\ max_results = 1
    /\ channel_name = <<>>
    /\ channel_url = <<>>
    /\ guess = 0
    /\ searches = <<>>
    /\ fetches = <<>>
    /\ last_fetch = NoFetch
    /\ gcv = NotCalled
    /\ videos = PyNone
    /\ title = <<>>
    /\ tpc = "ready"
    /\ safe_title = <<>>

\* one call of split_into_sentences(in_text)
SplitIntoSentences ==
    /\ spc = "ready"
    /\ spc' = "done"
    /\ sentences' = split_into_sentences(in_text)
    /\ in_text' = in_text
    /\ UNCHANGED <<avars, rvars, tvars>>

(***************************************************************************)
(* Specifications: each component runs with the others at rest            *)
(***************************************************************************)
SpecAcquire ==
    InitAcquirer /\ [][\E p \in Calls : get_youtube_script(p)]_vars

NextResolve ==
    ClickSearch \/ ClickQuick \/ DirectFetch \/ GcvSearch \/ GcvDerived \/ GcvGuess
SpecResolve == InitResolver /\ [][NextResolve]_vars

SpecTitle == InitTitle /\ [][MakeFilesafeTitle]_vars

SpecSegment == InitSegmenter /\ [][SplitIntoSentences]_vars

(***************************************************************************)
(* Properties of the transcript acquirer (SpecAcquire)                     *)
(***************************************************************************)
NoCaptions == {"TranscriptsDisabled", "NoTranscriptFound"}
InFallback(p) == pc[p] \in {"load_model", "transcribe", "exists", "remove"}
Has(p, op, out) == \E i \in DOMAIN log[p] : log[p][i] = [op |-> op, out |-> out]
Count(p, op) == Cardinality({i \in DOMAIN log[p] : log[p][i].op = op})

\* C1: when a call whose caption retrieval failed with TranscriptsDisabled or
\* NoTranscriptFound, and whose download created the audio file, has returned, the
\* file no longer exists, whether loading the model and transcribing succeeded or
\* raised.  (Stated for a call that ran alone: no other call has started.)
C1_AudioFileGoneOnReturn ==
    \A p \in Calls :
        ( /\ pc[p] = "done"
          /\ Has(p, "download", "ok")
          /\ \A q \in Calls \ {p} : pc[q] = "start" )
        => audio_file[p] \notin files

\* C2: get_youtube_script never raises for a failure of a collaborator: after a
\* caption failure other than disabled/not-found, or a failure of the download, of
\* loading the model or of the transcription, the call returns None.
C2_FailuresReturnNone ==
    \A p \in Calls :
        /\ ret[p].kind # "raised"
        /\ ( /\ pc[p] = "done"
             /\ \/ Has(p, "caption", "Exception")
                \/ Has(p, "download", "Exception")
                \/ Has(p, "load_model", "Exception")
                \/ Has(p, "transcribe", "Exception") )
           => ret[p] = [kind |-> "returned", value |-> None]

\* C2 witness: a call has ended after its transcription raised
C2_Witness ==
    \E p \in Calls :
        /\ pc[p] = "done"
        /\ Has(p, "transcribe", "Exception")
        /\ ret[p] = [kind |-> "returned", value |-> None]

\* C3: within one call, caption retrieval is attempted exactly once and first; the
\* download and the transcription are attempted at most once each, and only after
\* caption retrieval failed with TranscriptsDisabled or NoTranscriptFound; nothing
\* of the fallback runs after a caption success or another caption failure, and
\* caption retrieval is not attempted again after the fallback.
C3_StagesInOrder ==
    \A p \in Calls :
        /\ log[p] # <<>> => log[p][1].op = "caption"
        /\ Count(p, "caption") <= 1
        /\ Count(p, "download") <= 1
        /\ Count(p, "load_model") <= 1
        /\ Count(p, "transcribe") <= 1
        /\ (\E i \in DOMAIN log[p] : log[p][i].op # "caption")
              => log[p][1].out \in NoCaptions
        /\ pc[p] = "done" => Count(p, "caption") = 1

\* C3 witness: a call went through the whole fallback and returned its text
C3_Witness ==
    \E p \in Calls :
        /\ pc[p] = "done"
        /\ Has(p, "caption", "NoTranscriptFound")
        /\ Has(p, "download", "ok")
        /\ Has(p, "transcribe", "ok")
        /\ ret[p] = [kind |-> "returned", value |-> "whisper"]

\* C9: two calls that are in the speech-to-text fallback at the same time never
\* stage their audio under the same path.
C9_ExclusiveAudioPaths ==
    \A p, q \in Calls :
        (p # q /\ InFallback(p) /\ InFallback(q)) => audio_file[p] # audio_file[q]

(***************************************************************************)
(* Properties of the channel resolver (SpecResolve)                        *)
(***************************************************************************)
\* the listing fetches made by get_channel_videos itself
GcvFetches == SelectSeq(fetches, LAMBDA f : f.by # "main")
GuessFetches == SelectSeq(fetches, LAMBDA f : f.by = "guess")
Distinct(vs) == \A i, j \in DOMAIN vs : vs[i].id = vs[j].id => i = j

\* C4: whenever the search-derived strategy built a channel URL and its listing
\* fetch yielded nothing, get_channel_videos went on to the four direct guesses, in
\* the order handle, /c/, /user/, /channel/, and returned the listing of the first
\* guess that yielded a VideoRef (the empty sequence if none did).
C4_EmptyDerivedListingFallsThrough ==
    ( /\ gcv.kind = "returned"
      /\ GcvFetches # <<>>
      /\ GcvFetches[1].by = "search"
      /\ GcvFetches[1].out = "None" )
    => LET g == GuessFetches IN
       /\ g # <<>>
       /\ \A i \in DOMAIN g : g[i].url = PossibleUrls(channel_name)[i]
       /\ \A i \in 1..(Len(g) - 1) : g[i].out # "list"
       /\ \/ g[Len(g)].out = "list" /\ gcv.value = last_fetch.result
          \/ Len(g) = 4 /\ g[4].out # "list" /\ gcv.value = PyList(<<>>)

\* C5: get_channel_videos never raises and never returns None: it returns a
\* sequence, which is empty when no listing fetch it made yielded a VideoRef.
C5_AlwaysReturnsASequence ==
    /\ gcv.kind # "raised"
    /\ gcv.kind = "returned" =>
        /\ gcv.value.t = "list"
        /\ (\A i \in DOMAIN GcvFetches : GcvFetches[i].out # "list")
              => gcv.value = PyList(<<>>)

\* C6: _get_videos_from_url returns exactly the entries that have an id among the
\* first max_results provider entries, in provider order, and the 'index' of each is
\* the 1-based position of its entry in the provider's enumeration.  (The VideoRefs
\* of a None result are none.)
C6_RanksAreProviderPositions ==
    last_fetch.resp.kind = "entries" =>
        LET e == last_fetch.resp.entries
            n == Min(last_fetch.max, Len(e))
            items == last_fetch.result.v
        IN /\ last_fetch.result.t \in {"list", "None"}
           /\ \A k \in DOMAIN items :
                /\ items[k].index \in 1..n
                /\ items[k].id = e[items[k].index].id
                /\ items[k].id # <<>>
           /\ \A k \in 1..(Len(items) - 1) : items[k].index < items[k + 1].index
           /\ \A i \in 1..n : e[i].id # <<>> => \E k \in DOMAIN items : items[k].index = i

\* C6 witness: the listing is longer than max_results and an entry without id comes
\* before one with an id, whose rank therefore differs from its place in the result
C6_Witness ==
    /\ last_fetch.resp.kind = "entries"
    /\ Len(last_fetch.resp.entries) > last_fetch.max
    /\ last_fetch.result.t = "list"
    /\ \E k \in DOMAIN last_fetch.result.v : last_fetch.result.v[k].index # k

\* the channel name inside a query "ytsearch1:<name>"
QueryTerm(q) == SubSeq(q, Len(S_ytsearch1) + 1, Len(q))
Resolving == handler # "none"

\* C7 as claimed: given an identifier that starts with "http", the listing fetch is
\* invoked directly on it and the platform search is never performed, on every
\* path by which the identifier reaches the resolver.
C7_HttpNeverSearches ==
    (Resolving /\ StartsWith(ident, S_http)) =>
        /\ searches = <<>>
        /\ fetches # <<>> => (fetches[1].by = "main" /\ fetches[1].url = ident)

\* C7 as amended: given an identifier that starts with "http", the first thing the
\* resolution does is the listing fetch on that identifier, and the platform search
\* is never given such an identifier; the search button performs no platform search
\* at all for it, and quick_search performs one only after its direct fetch returned
\* nothing, and then on its fallback channel name.
C7_HttpFetchedDirectly ==
    /\ \A i \in DOMAIN searches : ~StartsWith(QueryTerm(searches[i]), S_http)
    /\ (Resolving /\ StartsWith(ident, S_http)) =>
        /\ rpc = "direct" => (fetches = <<>> /\ searches = <<>>)
        /\ rpc # "direct" =>
              (fetches # <<>> /\ fetches[1].by = "main" /\ fetches[1].url = ident)
        /\ handler = "search_button" => (searches = <<>> /\ gcv = NotCalled)
        /\ searches # <<>> =>
              /\ handler = "quick_search"
              /\ fetches[1].out = "None"
              /\ \E q \in QuickChannels :
                    q.channel_url = ident /\ QueryTerm(searches[1]) = q.fallback_name

\* C7 witness: the search button resolved a typed URL with one direct fetch
C7_Witness ==
    /\ handler = "search_button"
    /\ StartsWith(ident, S_http)
    /\ rpc = "done"
    /\ Len(fetches) = 1
    /\ fetches[1].url = ident

\* C8: no two VideoRefs in the result of one resolution call have the same id,
\* whatever the provider listing.
C8_IdsAreUnique ==
    /\ Distinct(last_fetch.result.v)
    /\ Distinct(gcv.value.v)

\* the first max_results entries of the latest listing, all without id
AllLackId ==
    LET e == last_fetch.resp.entries
    IN \A i \in 1..Min(last_fetch.max, Len(e)) : e[i].id = <<>>

\* C12 as claimed: _get_videos_from_url returns None when the provider returns no
\* entries at all, and an empty sequence, not None, when the provider returns
\* entries of which every one of the first max_results lacks an id.
C12_EmptyListWhenAllLackId ==
    /\ last_fetch.resp.kind \in {"none", "no_entries_key"}
          => last_fetch.result = PyNone
    /\ (last_fetch.resp.kind = "entries" /\ last_fetch.resp.entries = <<>>)
          => last_fetch.result = PyNone
    /\ (last_fetch.resp.kind = "entries" /\ last_fetch.resp.entries # <<>> /\ AllLackId)
          => last_fetch.result = PyList(<<>>)

\* C12 as amended: _get_videos_from_url does not tell its two 'nothing' outcomes
\* apart: it returns None when the provider returns no entries at all and also when
\* every one of the first max_results entries lacks an id; it never returns an
\* empty sequence, and it returns a list exactly when some entry has an id.
C12_NoneWheneverNothing ==
    last_fetch.resp.kind # "raise" =>
        /\ last_fetch.result # PyList(<<>>)
        /\ last_fetch.result.t \in {"None", "list"}
        /\ last_fetch.result = PyNone <=>
              (last_fetch.resp.kind # "entries" \/ AllLackId)

\* C12 witness: the provider returned entries, none of the first max_results has an
\* id, and the call returned None
C12_Witness ==
    /\ last_fetch.resp.kind = "entries"
    /\ last_fetch.resp.entries # <<>>
    /\ AllLackId
    /\ last_fetch.result = PyNone

(***************************************************************************)
(* Properties of make_filesafe_title (SpecTitle)                           *)
(***************************************************************************)
\* the characters the file name must not contain:  < > : \ / | ? * "
ExcludedChars == {"<", ">", ":", "\\", "/", "|", "?", "*", "\""}

\* characters that leave nothing behind in the name: whitespace, excluded and
\* control characters, combining marks, the underscore, and characters that
\* decompose into these
Vanishing ==
    ExcludedChars \cup
    {" ", "U+0009", "U+001F", "U+00A0", "U+0001", "U+0301", "_", "U+FF1C"}

\* C10: for every title, the empty one and those made only of forbidden
\* characters, whitespace or control characters included, make_filesafe_title
\* returns a non-empty string of at most 150 characters with none of
\* < > : \ / | ? * " and no character below 0x20, and it returns "script" when
\* nothing else is left of the title.
C10_FilesafeName ==
    tpc = "done" =>
        /\ safe_title # <<>>
        /\ Len(safe_title) <= 150
        /\ \A i \in DOMAIN safe_title :
            /\ safe_title[i] \notin ExcludedChars
            /\ CodePoint(safe_title[i]) >= 32
        /\ (\A i \in DOMAIN title : title[i] \in Vanishing) => safe_title = S_script

\* C10 witness: a title longer than the limit, holding a forbidden character, was
\* cut to exactly 150 characters
C10_Witness ==
    /\ tpc = "done"
    /\ Len(title) > 150
    /\ \E i \in DOMAIN title : title[i] \in ExcludedChars
    /\ Len(safe_title) = 150

\* C13: the result of make_filesafe_title never ends with an underscore or a dot,
\* whether the cleaned name was cut to 150 characters or not.
C13_NoTrailingUnderscoreOrDot ==
    tpc = "done" => safe_title[Len(safe_title)] \notin {"_", "."}

(***************************************************************************)
(* Properties of split_into_sentences (SpecSegment)                        *)
(***************************************************************************)
\* the characters of t that are not whitespace, in order
NonSpace(t) == SelectSeq(t, LAMBDA ch : ch \notin {" ", "U+0009", "U+000A"})

RECURSIVE Joined(_)
Joined(ss) == IF ss = <<>> THEN <<>> ELSE Head(ss) \o Joined(Tail(ss))

HasTerminator(t) == \E i \in DOMAIN t : t[i] \in {".", "!", "?"}
AllBlank(t) == NonSpace(t) = <<>>

\* the number of lines of t that hold a character other than whitespace: the
\* positions of the first such character of a line
NonBlankLines(t) ==
    Cardinality({i \in DOMAIN t :
        /\ NonSpace(<<t[i]>>) # <<>>
        /\ \A j \in 1..(i - 1) :
              (\A k \in j..(i - 1) : t[k] # "U+000A") => NonSpace(<<t[j]>>) = <<>>})

\* C11 as claimed: split_into_sentences returns a non-empty sequence whose
\* non-whitespace characters, in order, are those of the input; an input with no
\* sentence terminator is returned as a single element, and an empty or all-blank
\* input as the single element [input].
C11_NoTerminatorSingleElement ==
    spc = "done" =>
        /\ sentences # <<>>
        /\ NonSpace(Joined(sentences)) = NonSpace(in_text)
        /\ ~HasTerminator(in_text) => Len(sentences) = 1
        /\ AllBlank(in_text) => sentences = <<in_text>>

\* C11 as amended: split_into_sentences returns a non-empty sequence whose
\* non-whitespace characters, in order, are those of the input; an input with no
\* sentence terminator is returned as one element per non-blank line (a single
\* element when it has at most one such line), and an empty or all-blank input as
\* the single element [input].
C11_NoContentDropped ==
    spc = "done" =>
        /\ sentences # <<>>
        /\ NonSpace(Joined(sentences)) = NonSpace(in_text)
        /\ (~HasTerminator(in_text) /\ ~AllBlank(in_text))
              => Len(sentences) = NonBlankLines(in_text)
        /\ (~HasTerminator(in_text) /\ NonBlankLines(in_text) <= 1)
              => Len(sentences) = 1
        /\ AllBlank(in_text) => sentences = <<in_text>>

\* C11 witness: a text of two sentences, the second without terminator, was split
C11_Witness ==
    /\ spc = "done"
    /\ HasTerminator(in_text)
    /\ Len(sentences) = 2
    /\ ~HasTerminator(sentences[2])

=============================================================================
